---- MODULE Spec2Model ----
(***************************************************************************)
(* PyTorrent: the torrent session manager (src/torrent_engine.py,          *)
(* class TorrentEngine).  The manager keeps two insertion-ordered maps,    *)
(* _torrents (id -> engine handle) and _meta (id -> descriptor), and a     *)
(* JSON state file; a legacy state file is migrated once at start-up.      *)
(* The libtorrent session, the file system and the JSON codec are the      *)
(* environment: every call into them that can fail is given its outcome    *)
(* by an oracle argument, drawn with \E in the actions.                    *)
(***************************************************************************)
EXTENDS Integers, Sequences, FiniteSets, TLC

VARIABLES
    torrents,    \* self._torrents: sequence of [id, h] in insertion order
    meta,        \* self._meta: sequence of [id, kind, source] in insertion order
    stateFile,   \* the file at self._state_path
    legacyFile,  \* the file at self._legacy_state_path
    infoHash,    \* whether handle.info_hash() works in this process
    pc,          \* "new" (no process yet), "run", "failed" (__init__ raised)
    faults,      \* whether the engine and the file system may fail in this run
    steps,       \* operations performed so far
    lastOp,      \* the last operation: its arguments, engine calls and result
    added,       \* observer: the ids added to this manager, less those removed
                 \* since and those whose handle the engine reported invalid
    closedIds,   \* observer: the ids close() dropped and nobody added again
    evicted      \* observer: the ids get_status_list dropped from the live map
                 \* in this process and nobody removed since

vars == <<torrents, meta, stateFile, legacyFile, infoHash, pc, faults, steps,
          lastOp, added, closedIds, evicted>>

-----------------------------------------------------------------------------
(* Bounds *)

\* operations in one run (a restart counts as one)
MaxSteps == 3

-----------------------------------------------------------------------------
(* Insertion-ordered dictionaries (Python dict), as sequences of records   *)
(* with an id field.                                                       *)

Keys(d) == {d[i].id : i \in DOMAIN d}

Has(d, k) == k \in Keys(d)

Get(d, k) == d[CHOOSE i \in DOMAIN d : d[i].id = k]

\* d[k] = e: an existing key keeps its position, a new key goes last
Put(d, e) ==
    IF Has(d, e.id)
    THEN [i \in DOMAIN d |-> IF d[i].id = e.id THEN e ELSE d[i]]
    ELSE Append(d, e)

IsOther(e, k) == e.id # k

\* d.pop(k, None)
Pop(d, k) == SelectSeq(d, LAMBDA e : IsOther(e, k))

Range(s) == {s[i] : i \in DOMAIN s}

-----------------------------------------------------------------------------
(* Sources and the engine's content identifiers.                           *)

FilePaths == {"a.torrent", "b.torrent"}
MagnetUris == {"magnet:a"}
\* what a caller may pass: "junk" is neither a parseable .torrent file nor a
\* well-formed magnet URI
PathArgs == FilePaths \cup {"junk"}
UriArgs == MagnetUris \cup {"junk"}

\* lt.torrent_info(path) parses; session.add_torrent accepts the magnet URI
ParseOK(kind, source) ==
    \/ kind = "file" /\ source \in FilePaths
    \/ kind = "magnet" /\ source \in MagnetUris

\* handle.info_hash(): a.torrent and magnet:a name the same content
InfoHash(source) == IF source = "b.torrent" THEN 102 ELSE 101

ContentIds == {InfoHash(s) : s \in FilePaths \cup MagnetUris}

-----------------------------------------------------------------------------
(* Files.  A file is absent, bad (present but unreadable or not JSON), or  *)
(* holds a JSON value.  JSON values are told apart as far as _load_state   *)
(* tells them apart:                                                       *)
(*   "null"     json.load gives None                                        *)
(*   "falsy"    a falsy value other than None: {}, [], 0, ""               *)
(*   "nonobj"   a truthy value without .get: [1], 5, "x"                   *)
(*   "badlist"  an object whose "torrents" is not iterable: 5, null        *)
(*   "obj"      an object whose "torrents" is the list in field torrents   *)
(* A list item is a record [id, kind, source]; kind "nonobj" stands for an *)
(* item that is not an object, kind or source "none" for a missing or      *)
(* falsy field, kind "other" for a truthy kind that is no known kind.      *)

Absent == [t |-> "absent", j |-> "none", torrents |-> <<>>]
Bad == [t |-> "bad", j |-> "none", torrents |-> <<>>]
Json(j, items) == [t |-> "json", j |-> j, torrents |-> items]

IoOutcomes == {"ok", "openfail", "partial"}

\* open(path, "w") + json.dump(value): open may fail (file untouched), the
\* dump may fail after open truncated the file (file left unparseable)
WriteJson(file, value, io) ==
    CASE io = "ok" -> value
      [] io = "openfail" -> file
      [] OTHER -> Bad

\* _save_state: {"torrents": [{"id": tid, **meta} ...]}, every failure swallowed
save_state(m, file, io) == WriteJson(file, Json("obj", m), io)

-----------------------------------------------------------------------------
(* The running manager as a value: the two maps, the state file, whether   *)
(* handle.info_hash() works (it does or does not for a whole process: the  *)
(* binding has the call or lacks it), and what the operation in progress   *)
(* has done (engine calls and file writes in order, the id returned,       *)
(* whether it raised to its caller).                                       *)

Mgr(t, m, file, hash) ==
    [torrents |-> t, meta |-> m, file |-> file, hash |-> hash,
     calls |-> <<>>, tid |-> 0, raised |-> FALSE]

Handles(t) == {t[i].h : i \in DOMAIN t}

\* A handle is named by the identity of its Python object, id(handle): a
\* number no live object has.  The new handle takes the least number that
\* no tracked handle has and that is no key of either map.
NewHandle(s) ==
    LET used == Handles(s.torrents) \cup Keys(s.torrents) \cup Keys(s.meta)
    IN  CHOOSE h \in 1..(Cardinality(used) + 1) : h \notin used

Call(c, h, ok) == [c |-> c, h |-> h, ok |-> ok]

\* the outcomes of one add: the engine's add_torrent and the write of the
\* state file (there is no write when the add fails)
AddOracles ==
    {o \in [add : {"ok", "fail"}, io : IoOutcomes] : o.add = "fail" => o.io = "ok"}

\* _get_torrent_id: str(info_hash), or str(id(handle)) when info_hash() raises;
\* the identity of a handle object is its number
get_torrent_id(h, source, hash) == IF hash THEN InfoHash(source) ELSE h

\* the state file after _save_state of the descriptor map dm
Saved(s, dm, io) == save_state(dm, s.file, io)

\* an add that saves the descriptor map before the new descriptor is in it
Track_saving_first(s, kind, source, h, o) ==
    LET tid == get_torrent_id(h, source, s.hash)
        dm == Put(s.meta, [id |-> tid, kind |-> kind, source |-> source])
    IN  [s EXCEPT !.torrents = Put(s.torrents, [id |-> tid, h |-> h]),
                  !.meta = dm,
                  !.file = Saved(s, s.meta, o.io),
                  !.calls = s.calls \o <<Call("add_torrent", h, TRUE),
                                         Call("write", 0, o.io = "ok")>>,
                  !.tid = tid,
                  !.raised = FALSE]

\* an add that gives up, with the maps as they were, when the save fails
Track_undone_by_failed_save(s, kind, source, h, o) ==
    LET tid == get_torrent_id(h, source, s.hash)
        dm == Put(s.meta, [id |-> tid, kind |-> kind, source |-> source])
        c == s.calls \o <<Call("add_torrent", h, TRUE), Call("write", 0, o.io = "ok")>>
    IN  IF o.io = "ok"
        THEN [s EXCEPT !.torrents = Put(s.torrents, [id |-> tid, h |-> h]),
                       !.meta = dm,
                       !.file = Saved(s, dm, o.io),
                       !.calls = c,
                       !.tid = tid,
                       !.raised = FALSE]
        ELSE [s EXCEPT !.file = Saved(s, dm, o.io), !.calls = c,
                       !.tid = 0, !.raised = TRUE]

\* add_torrent_file / add_magnet after the engine returned handle h:
\* both maps are set, then the state is saved, then tid is returned
Track(s, kind, source, h, o) ==
    LET tid == get_torrent_id(h, source, s.hash)
        dm == Put(s.meta, [id |-> tid, kind |-> kind, source |-> source])
    IN  [s EXCEPT !.torrents = Put(s.torrents, [id |-> tid, h |-> h]),
                  !.meta = dm,
                  !.file = Saved(s, dm, o.io),
                  !.calls = s.calls \o <<Call("add_torrent", h, TRUE),
                                         Call("write", 0, o.io = "ok")>>,
                  !.tid = tid,
                  !.raised = FALSE]

\* add_torrent_file(torrent_path): lt.torrent_info raises on a file it cannot
\* parse, before the session is asked; session.add_torrent may raise; either
\* exception leaves the manager as it was and reaches the caller
add_torrent_file(s, torrent_path, o) ==
    IF ~ParseOK("file", torrent_path)
    THEN [s EXCEPT !.tid = 0, !.raised = TRUE]
    ELSE IF o.add = "fail"
    THEN [s EXCEPT !.calls = Append(s.calls, Call("add_torrent", 0, FALSE)),
                   !.tid = 0, !.raised = TRUE]
    ELSE Track(s, "file", torrent_path, NewHandle(s), o)

\* an add that saves the state before it raises
add_magnet_saving_on_failure(s, magnet_uri, o) ==
    IF ~ParseOK("magnet", magnet_uri) \/ o.add = "fail"
    THEN [s EXCEPT !.file = Saved(s, s.meta, "ok"),
                   !.calls = Append(s.calls, Call("add_torrent", 0, FALSE)),
                   !.tid = 0, !.raised = TRUE]
    ELSE Track(s, "magnet", magnet_uri, NewHandle(s), o)

\* add_magnet(magnet_uri): session.add_torrent raises on a malformed URI or on
\* an engine failure
add_magnet(s, magnet_uri, o) ==
    IF ~ParseOK("magnet", magnet_uri) \/ o.add = "fail"
    THEN [s EXCEPT !.calls = Append(s.calls, Call("add_torrent", 0, FALSE)),
                   !.tid = 0, !.raised = TRUE]
    ELSE Track(s, "magnet", magnet_uri, NewHandle(s), o)


-----------------------------------------------------------------------------
(* _load_state, run once by __init__.                                      *)

\* data = None
None == Json("null", <<>>)

IsNone(data) == data.j = "null"

\* `not data`: None or another falsy value
Falsy(data) == data.j \in {"null", "falsy"}

\* the outcomes of one load: the write of the migrated file, os.remove of the
\* legacy file, and one add oracle per list item
LoadOracles(n) == [mig : IoOutcomes, rm : BOOLEAN, adds : [1..n -> AddOracles]]

NoFailure == [add |-> "ok", io |-> "ok"]

\* a load in which nothing fails
QuietLoad(o) ==
    o.mig = "ok" /\ o.rm /\ \A i \in DOMAIN o.adds : o.adds[i] = NoFailure

\* the oracles that differ in a call the load makes: the migration outcomes
\* count when a readable legacy file is consulted, an item's add outcomes
\* when the item reaches the engine
ItemOracles(item) ==
    IF item.kind \in {"file", "magnet"} /\ ParseOK(item.kind, item.source)
    THEN AddOracles
    ELSE {NoFailure}

LoadOraclesFor(migrating, items) ==
    {o \in LoadOracles(Len(items)) :
        /\ (~migrating) => (o.mig = "ok" /\ o.rm)
        /\ o.mig # "ok" => (o.rm /\ \A i \in DOMAIN items : o.adds[i] = NoFailure)
        /\ \A i \in DOMAIN items : o.adds[i] \in ItemOracles(items[i])}

\* lines 49-54: the current file is read when it exists; an unreadable or
\* unparseable file gives None
ReadCurrent(cur) == IF cur.t = "json" THEN cur ELSE None

\* a migration that removes the legacy file whether or not the copy was
\* written
Migrate_removing_anyway(cur, legacy, o) ==
    IF legacy.t = "bad"
    THEN [data |-> None, cur |-> cur, legacy |-> legacy, calls |-> <<>>]
    ELSE [data |-> IF o.mig = "ok" THEN legacy ELSE None,
          cur |-> WriteJson(cur, legacy, o.mig),
          legacy |-> IF o.rm THEN Absent ELSE legacy,
          calls |-> <<Call("write", 0, o.mig = "ok"), Call("os.remove", 0, o.rm)>>]

\* a migration that never removes the legacy file
Migrate_keeping_legacy(cur, legacy, o) ==
    IF legacy.t = "bad"
    THEN [data |-> None, cur |-> cur, legacy |-> legacy, calls |-> <<>>]
    ELSE [data |-> IF o.mig = "ok" THEN legacy ELSE None,
          cur |-> WriteJson(cur, legacy, o.mig),
          legacy |-> legacy,
          calls |-> <<Call("write", 0, o.mig = "ok")>>]

\* lines 56-67: the legacy file is consulted when data is None and it exists;
\* it is read, written to the current location, then removed (a failing
\* remove is ignored); a failing read or write gives None
Migrate(cur, legacy, o) ==
    IF legacy.t = "bad"
    THEN [data |-> None, cur |-> cur, legacy |-> legacy, calls |-> <<>>]
    ELSE IF o.mig # "ok"
    THEN [data |-> None, cur |-> WriteJson(cur, legacy, o.mig), legacy |-> legacy,
          calls |-> <<Call("write", 0, FALSE)>>]
    ELSE [data |-> legacy,
          cur |-> WriteJson(cur, legacy, o.mig),
          legacy |-> IF o.rm THEN Absent ELSE legacy,
          calls |-> <<Call("write", 0, TRUE), Call("os.remove", 0, o.rm)>>]

\* a restore that stops after the first descriptor
Readd_first_only(s, items, i, adds) ==
    IF items = <<>> THEN s
    ELSE LET item == items[1]
             r == CASE item.kind = "file" -> add_torrent_file(s, item.source, adds[1])
                    [] item.kind = "magnet" -> add_magnet(s, item.source, adds[1])
                    [] OTHER -> s
         IN  [r EXCEPT !.raised = FALSE]

\* lines 73-84: the descriptors are re-added one by one; an item that is not
\* an object raises from item.get; an item without kind or source is skipped;
\* an add that raises is skipped
RECURSIVE Readd(_, _, _, _)
Readd(s, items, i, adds) ==
    IF i > Len(items) THEN s
    ELSE LET item == items[i] IN
         IF item.kind = "nonobj" THEN [s EXCEPT !.raised = TRUE]
         ELSE IF item.kind = "none" \/ item.source = "none"
         THEN Readd(s, items, i + 1, adds)
         ELSE LET r == CASE item.kind = "file" -> add_torrent_file(s, item.source, adds[i])
                         [] item.kind = "magnet" -> add_magnet(s, item.source, adds[i])
                         [] OTHER -> s
              IN  Readd([r EXCEPT !.raised = FALSE], items, i + 1, adds)

\* _load_state on a fresh manager; the result holds the manager, the legacy
\* file, the data that was read and where it came from
load_state(cur, legacy, hash, o) ==
    LET d1 == ReadCurrent(cur)
        useLegacy == IsNone(d1) /\ legacy.t # "absent"
        mg == IF useLegacy THEN Migrate(cur, legacy, o)
              ELSE [data |-> d1, cur |-> cur, legacy |-> legacy, calls |-> <<>>]
        s0 == [Mgr(<<>>, <<>>, mg.cur, hash) EXCEPT !.calls = mg.calls]
        s1 == CASE Falsy(mg.data) -> s0
                [] mg.data.j \in {"nonobj", "badlist"} -> [s0 EXCEPT !.raised = TRUE]
                [] OTHER -> Readd(s0, mg.data.torrents, 1, o.adds)
    IN  [s |-> [s1 EXCEPT !.tid = 0],
         legacy |-> mg.legacy,
         data |-> mg.data,
         frm |-> IF useLegacy THEN "legacy" ELSE IF cur.t = "absent" THEN "none" ELSE "current"]


-----------------------------------------------------------------------------
(* pause, resume, remove, close.                                           *)

\* the outcomes of handle.pause() / handle.resume() and of the write
ToggleOracles == [eng : BOOLEAN, io : IoOutcomes]

\* a pause or resume in which nothing fails
QuietToggle(o) == o.eng /\ o.io = "ok"

\* the oracles that differ in a call the operation makes
PauseOracles(known) == {o \in ToggleOracles : known \/ o.eng}
ResumeOracles(known) == {o \in ToggleOracles : o.io = "ok" /\ (known \/ o.eng)}

\* a pause that also drops the id from the live map
pause_and_forget(s, torrent_id, o) ==
    [s EXCEPT !.torrents = Pop(s.torrents, torrent_id),
              !.file = Saved(s, s.meta, o.io),
              !.calls = <<Call("write", 0, o.io = "ok")>>]

\* pause(torrent_id): the engine is asked only for a tracked id, its failure
\* is swallowed, and the state is saved in every case
pause(s, torrent_id, o) ==
    LET known == Has(s.torrents, torrent_id)
        c == IF known
             THEN <<Call("pause", Get(s.torrents, torrent_id).h, o.eng)>>
             ELSE <<>>
    IN  [s EXCEPT !.file = Saved(s, s.meta, o.io),
                  !.calls = c \o <<Call("write", 0, o.io = "ok")>>]

\* a resume that saves the state as pause does
resume_and_save(s, torrent_id, o) ==
    LET c == IF Has(s.torrents, torrent_id)
             THEN <<Call("resume", Get(s.torrents, torrent_id).h, o.eng)>>
             ELSE <<>>
    IN  [s EXCEPT !.file = Saved(s, s.meta, o.io),
                  !.calls = c \o <<Call("write", 0, o.io = "ok")>>]

\* resume(torrent_id): as pause, without the save
resume(s, torrent_id, o) ==
    IF Has(s.torrents, torrent_id)
    THEN [s EXCEPT !.calls = <<Call("resume", Get(s.torrents, torrent_id).h, o.eng)>>]
    ELSE s

\* the outcomes of one remove: hasattr(lt, "options_t"), the first
\* session.remove_torrent, and the fallback session.remove_torrent
RemoveOracles == [cap : BOOLEAN, first : BOOLEAN, second : BOOLEAN]

\* a remove in which nothing fails, on a build that has lt.options_t
QuietRemove(o) == o.cap /\ o.first /\ o.second

\* the oracles that differ in a call the operation makes
RemoveOraclesFor(known, delete_files) ==
    {o \in RemoveOracles :
        /\ (~known) => (o.cap /\ o.first)
        /\ (~delete_files) => o.cap
        /\ o.first => o.second}

\* a remove that drops the descriptor and keeps the handle in the live map
remove_keeping_handle(s, torrent_id, delete_files, o) ==
    LET known == Has(s.torrents, torrent_id)
        h == IF known THEN Get(s.torrents, torrent_id).h ELSE 0
        c1 == IF delete_files /\ o.cap
              THEN Call("remove_torrent_delete_files", h, o.first)
              ELSE Call("remove_torrent", h, o.first)
        c2 == IF o.first THEN <<>> ELSE <<Call("remove_torrent", h, o.second)>>
    IN  [s EXCEPT !.meta = Pop(s.meta, torrent_id),
                  !.calls = IF known THEN <<c1>> \o c2 ELSE <<>>]

\* a remove that keeps the descriptor when the engine refuses twice
remove_unless_refused(s, torrent_id, delete_files, o) ==
    LET known == Has(s.torrents, torrent_id)
        h == IF known THEN Get(s.torrents, torrent_id).h ELSE 0
        c1 == IF delete_files /\ o.cap
              THEN Call("remove_torrent_delete_files", h, o.first)
              ELSE Call("remove_torrent", h, o.first)
        c2 == IF o.first THEN <<>> ELSE <<Call("remove_torrent", h, o.second)>>
    IN  [s EXCEPT !.torrents = Pop(s.torrents, torrent_id),
                  !.meta = IF o.first \/ o.second THEN Pop(s.meta, torrent_id) ELSE s.meta,
                  !.calls = IF known THEN <<c1>> \o c2 ELSE <<>>]

\* remove(torrent_id, delete_files): both maps drop the id, then the engine is
\* asked when a handle was tracked; the state file is not written
remove(s, torrent_id, delete_files, o) ==
    LET known == Has(s.torrents, torrent_id)
        h == IF known THEN Get(s.torrents, torrent_id).h ELSE 0
        c1 == IF delete_files /\ o.cap
              THEN Call("remove_torrent_delete_files", h, o.first)
              ELSE Call("remove_torrent", h, o.first)
        c2 == IF o.first THEN <<>> ELSE <<Call("remove_torrent", h, o.second)>>
    IN  [s EXCEPT !.torrents = Pop(s.torrents, torrent_id),
                  !.meta = Pop(s.meta, torrent_id),
                  !.calls = IF known THEN <<c1>> \o c2 ELSE <<>>]

\* the outcomes of one close: handle.pause() per handle, and the write
CloseOracles(hs) == [eng : [hs -> BOOLEAN], io : IoOutcomes]

\* a close in which nothing fails
QuietClose(o) == o.io = "ok" /\ \A h \in DOMAIN o.eng : o.eng[h]

PauseCall(e, eng) == Call("pause", e.h, eng[e.h])

\* a close that gives up at the first handle whose pause fails: the later
\* handles are not paused
close_stopping_at_failure(s, o) ==
    LET all == [i \in DOMAIN s.torrents |-> PauseCall(s.torrents[i], o.eng)]
        bad == {i \in DOMAIN all : ~all[i].ok}
        n == IF bad = {} THEN Len(all)
             ELSE CHOOSE i \in bad : \A j \in bad : i <= j
    IN  [s EXCEPT !.torrents = <<>>,
                  !.file = Saved(s, s.meta, o.io),
                  !.calls = SubSeq(all, 1, n) \o <<Call("write", 0, o.io = "ok")>>]

\* close(): every tracked handle is paused (failures ignored), the live map is
\* cleared, the state is saved
close(s, o) ==
    [s EXCEPT !.torrents = <<>>,
              !.file = Saved(s, s.meta, o.io),
              !.calls = [i \in DOMAIN s.torrents |-> PauseCall(s.torrents[i], o.eng)]
                        \o <<Call("write", 0, o.io = "ok")>>]


-----------------------------------------------------------------------------
(* get_status_list: the status reconciler and the eviction of handles the  *)
(* engine reports invalid.                                                 *)
(* The engine's answer for one handle is a record: q says how              *)
(* handle.status() ended ("ok", "runtime_error", or "other_error" for an   *)
(* exception that is no RuntimeError); info and prio say whether           *)
(* get_torrent_info()/files() and file_priorities() succeeded.  progress   *)
(* is in percent (100 is 1.0); rates are in bytes per second.              *)

state_names ==
    <<"Queued", "Checking", "Downloading metadata", "Downloading",
      "Finished", "Seeding", "Allocating", "Checking fastresume">>

\* a lookup that wraps around the table instead of checking the range
StateLabel_unchecked(raw_state) == state_names[(raw_state % Len(state_names)) + 1]

\* lines 158-161
StateLabel(raw_state) ==
    IF 0 <= raw_state /\ raw_state < Len(state_names)
    THEN state_names[raw_state + 1]
    ELSE "Unknown"

\* lines 172-175: the sizes of the files whose priority is > 0, summed
RECURSIVE SizeSum(_, _, _)
SizeSum(sizes, priorities, idx) ==
    IF idx > Len(sizes) THEN 0
    ELSE (IF priorities[idx] > 0 THEN sizes[idx] ELSE 0)
         + SizeSum(sizes, priorities, idx + 1)

\* an override that takes a size sum of zero too
TotalSize_any_sum(r) ==
    IF /\ r.info = "ok"
       /\ r.prio = "ok"
       /\ Len(r.priorities) > 0
       /\ Len(r.priorities) = Len(r.sizes)
    THEN SizeSum(r.sizes, r.priorities, 1)
    ELSE r.total_wanted

\* lines 163-179: total_wanted, overridden by the size sum when the torrent
\* info and the priorities are there, the priorities are non-empty, their
\* count is the file count, and the sum is positive
TotalSize(r) ==
    IF /\ r.info = "ok"
       /\ r.prio = "ok"
       /\ Len(r.priorities) > 0
       /\ Len(r.priorities) = Len(r.sizes)
       /\ SizeSum(r.sizes, r.priorities, 1) > 0
    THEN SizeSum(r.sizes, r.priorities, 1)
    ELSE r.total_wanted

Max(a, b) == IF a >= b THEN a ELSE b

\* an ETA rounded up to the next second
Eta_rounded_up(total_size, downloaded, download_rate) ==
    LET remaining == Max(0, total_size - downloaded)
    IN  IF download_rate > 0 /\ remaining > 0
        THEN (remaining + download_rate - 1) \div download_rate
        ELSE -1

\* an ETA of zero when nothing remains
Eta_zero_when_done(total_size, downloaded, download_rate) ==
    IF download_rate > 0
    THEN Max(0, total_size - downloaded) \div download_rate
    ELSE -1

\* lines 183-187
Eta(total_size, downloaded, download_rate) ==
    LET remaining == Max(0, total_size - downloaded)
    IN  IF download_rate > 0 /\ remaining > 0
        THEN remaining \div download_rate
        ELSE -1

\* a display state that lets the seeding flag win over the paused flag
DisplayState_seeding_first(r) ==
    IF r.is_seeding THEN "Seeding"
    ELSE IF r.paused THEN "Paused"
    ELSE IF 0 < r.progress /\ r.progress < 100 /\ r.download_rate < 50 * 1024
    THEN "Resuming"
    ELSE StateLabel(r.state)

\* lines 197-204
DisplayState(r) ==
    IF r.paused THEN "Paused"
    ELSE IF r.is_seeding THEN "Seeding"
    ELSE IF 0 < r.progress /\ r.progress < 100 /\ r.download_rate < 50 * 1024
    THEN "Resuming"
    ELSE StateLabel(r.state)

\* lines 188-194 and 209
DisplayName(r) ==
    LET name == IF r.name # "" THEN r.name
                ELSE IF r.info = "ok" THEN r.info_name ELSE ""
    IN  IF name # "" THEN name ELSE "(metadata...)"

\* lines 206-221: the snapshot of one handle
Snapshot(tid, r) ==
    [id |-> tid,
     name |-> DisplayName(r),
     progress |-> r.progress,
     download_rate |-> r.download_rate,
     upload_rate |-> r.upload_rate,
     state |-> DisplayState(r),
     total_size |-> TotalSize(r),
     downloaded |-> r.total_done,
     num_peers |-> r.num_peers,
     eta |-> Eta(TotalSize(r), r.total_done, r.download_rate),
     is_paused |-> r.paused,
     is_seeding |-> r.is_seeding]

\* lines 142-221: the loop over list(self._torrents.items()); acc holds the
\* result so far, the ids to remove, the answers used, and whether status()
\* raised something that is no RuntimeError, which ends the call
RECURSIVE Poll(_, _, _, _)
Poll(t, ans, i, acc) ==
    IF i > Len(t) THEN acc
    ELSE LET r == ans[t[i].h] IN
         CASE r.q = "runtime_error" ->
                Poll(t, ans, i + 1, [acc EXCEPT !.to_remove = Append(@, t[i].id)])
           [] r.q = "other_error" -> [acc EXCEPT !.raised = TRUE]
           [] OTHER ->
                Poll(t, ans, i + 1,
                     [acc EXCEPT !.result = Append(@, Snapshot(t[i].id, r)),
                                 !.raw = Append(@, r)])

IsKept(e, to_remove) == e.id \notin Range(to_remove)

\* a poll that drops the descriptor of an invalid handle too
get_status_list_forgetting(s, ans) ==
    LET acc == Poll(s.torrents, ans, 1,
                    [result |-> <<>>, to_remove |-> <<>>, raw |-> <<>>, raised |-> FALSE])
    IN  IF acc.raised
        THEN [s |-> [s EXCEPT !.raised = TRUE], result |-> <<>>, raw |-> <<>>]
        ELSE [s |-> [s EXCEPT !.torrents =
                         SelectSeq(s.torrents, LAMBDA e : IsKept(e, acc.to_remove)),
                              !.meta =
                         SelectSeq(s.meta, LAMBDA e : IsKept(e, acc.to_remove))],
              result |-> acc.result,
              raw |-> acc.raw]

\* get_status_list(): the ids whose status() raised RuntimeError leave the
\* live map after the loop; an exception that ends the loop leaves it as is
get_status_list(s, ans) ==
    LET acc == Poll(s.torrents, ans, 1,
                    [result |-> <<>>, to_remove |-> <<>>, raw |-> <<>>, raised |-> FALSE])
    IN  IF acc.raised
        THEN [s |-> [s EXCEPT !.raised = TRUE], result |-> <<>>, raw |-> <<>>]
        ELSE [s |-> [s EXCEPT !.torrents =
                         SelectSeq(s.torrents, LAMBDA e : IsKept(e, acc.to_remove))],
              result |-> acc.result,
              raw |-> acc.raw]


-----------------------------------------------------------------------------
(* The engine's answers.                                                   *)

Healthy ==
    [q |-> "ok", state |-> 3, total_done |-> 42000, total_wanted |-> 100000,
     info |-> "ok", sizes |-> <<40000, 60000>>, prio |-> "ok",
     priorities |-> <<4, 1>>, progress |-> 42, download_rate |-> 10000,
     upload_rate |-> 0, name |-> "ubuntu", info_name |-> "ubuntu.iso",
     paused |-> FALSE, is_seeding |-> FALSE, num_peers |-> 0]

\* handle.status() raises RuntimeError: the handle is no longer valid
Invalid == [Healthy EXCEPT !.q = "runtime_error"]

\* handle.status() raises an exception that is no RuntimeError
Broken == [Healthy EXCEPT !.q = "other_error"]

\* the answers a poll of the running manager may get
PollAnswers == {Healthy, Invalid, Broken}

\* every raw status the reconciler is checked on
RawStatus ==
  {r \in
    [q : {"ok"},
     state : -1..8,
     total_done : {0, 42000, 100000},
     total_wanted : {0, 100000},
     info : {"ok", "fail"},
     sizes : {<<40000>>, <<40000, 60000>>},
     prio : {"ok", "fail"},
     priorities : {<<>>, <<1>>, <<0, 0>>, <<4, 0>>},
     progress : {0, 42, 100},
     download_rate : {-1, 0, 10000, 51199, 51200},
     upload_rate : {0},
     name : {""},
     info_name : {"ubuntu.iso"},
     paused : BOOLEAN,
     is_seeding : BOOLEAN,
     num_peers : {0}] :
    \* what a failed query would have returned is left at one value
    /\ r.info = "fail" => (r.sizes = <<40000>> /\ r.prio = "fail")
    /\ r.prio = "fail" => r.priorities = <<>>}

-----------------------------------------------------------------------------
(* State files a process may find at start-up.                             *)

DescA == [id |-> 101, kind |-> "file", source |-> "a.torrent"]
DescB == [id |-> 102, kind |-> "file", source |-> "b.torrent"]
DescM == [id |-> 101, kind |-> "magnet", source |-> "magnet:a"]
\* a descriptor saved under the identity of a handle object
DescE == [id |-> 1, kind |-> "file", source |-> "a.torrent"]
DescJunk == [id |-> 101, kind |-> "file", source |-> "junk"]
DescNoKind == [id |-> 101, kind |-> "none", source |-> "a.torrent"]
DescOther == [id |-> 101, kind |-> "other", source |-> "a.torrent"]
NotAnObject == [id |-> 0, kind |-> "nonobj", source |-> "none"]

StartLists ==
    {<<>>, <<DescA>>, <<DescM>>, <<DescA, DescB>>, <<DescB, DescM>>,
     <<DescE, DescB>>, <<DescJunk, DescB>>, <<DescNoKind, DescB>>,
     <<DescOther, DescB>>, <<DescB, NotAnObject>>}

StartFiles ==
    {Absent, Bad, None, Json("falsy", <<>>), Json("nonobj", <<>>),
     Json("badlist", <<>>)}
    \cup {Json("obj", l) : l \in StartLists}

-----------------------------------------------------------------------------
(* Actions: one per operation of TorrentEngine.                            *)

Op(name) ==
    [op |-> name, id |-> 0, src |-> "", del |-> FALSE, raised |-> FALSE,
     calls |-> <<>>, out |-> <<>>, raw |-> <<>>, data |-> None,
     frm |-> "none", cur0 |-> "none"]

\* one more operation, within the bound
Step == steps < MaxSteps /\ steps' = steps + 1

\* the ids an operation is called with: every content id, tracked or not,
\* and every id one of the maps holds
Ids == ContentIds \cup Keys(torrents) \cup Keys(meta)

Self == Mgr(torrents, meta, stateFile, infoHash)

\* the manager's fields take the values of s
Becomes(s) ==
    /\ torrents' = s.torrents
    /\ meta' = s.meta
    /\ stateFile' = s.file

\* a first start with no process yet: no state file, and possibly the legacy
\* file of an older version
Fresh ==
    /\ torrents = <<>>
    /\ meta = <<>>
    /\ stateFile = Absent
    /\ legacyFile \in {Absent, Json("obj", <<DescA, DescB>>)}
    /\ infoHash = TRUE
    /\ pc = "new"
    /\ steps = 0
    /\ lastOp = Op("init")
    /\ added = {}
    /\ closedIds = {}
    /\ evicted = {}

Init == Fresh /\ faults = TRUE

\* whether _load_state will read a legacy file, and the list it will walk
Migrating == IsNone(ReadCurrent(stateFile)) /\ legacyFile.t = "json"
LoadItems == IF Migrating THEN legacyFile.torrents ELSE stateFile.torrents

\* A process starts (the first one, or a new one after the last ended or
\* was killed): __init__ builds empty maps and runs _load_state(); an
\* exception out of it leaves no manager.  The files are what the last
\* process left.
Start ==
    /\ Step
    /\ \E hash \in BOOLEAN, o \in LoadOraclesFor(Migrating, LoadItems) :
         LET r == load_state(stateFile, legacyFile, hash, o)
             s == IF r.s.raised THEN Mgr(<<>>, <<>>, r.s.file, hash) ELSE r.s
         IN
         /\ faults \/ (hash /\ QuietLoad(o))
         /\ Becomes(s)
         /\ legacyFile' = r.legacy
         /\ infoHash' = hash
         /\ pc' = IF r.s.raised THEN "failed" ELSE "run"
         /\ lastOp' = [Op("load") EXCEPT !.raised = r.s.raised, !.calls = r.s.calls,
                                         !.data = r.data, !.frm = r.frm,
                                         !.cur0 = stateFile.t]
         /\ added' = Keys(s.torrents)
         /\ closedIds' = {}
         /\ evicted' = {}
    /\ UNCHANGED faults

\* what an add leaves in the observers
Noted(s) ==
    /\ added' = IF s.raised THEN added ELSE added \cup {s.tid}
    /\ closedIds' = IF s.raised THEN closedIds ELSE closedIds \ {s.tid}

AddFile ==
    /\ pc = "run"
    /\ Step
    /\ \E path \in PathArgs, o \in AddOracles :
         LET s == add_torrent_file(Self, path, o) IN
         /\ faults \/ o = NoFailure
         /\ Becomes(s)
         /\ lastOp' = [Op("add_torrent_file") EXCEPT !.id = s.tid, !.src = path,
                           !.raised = s.raised, !.calls = s.calls]
         /\ Noted(s)
    /\ UNCHANGED <<legacyFile, infoHash, pc, faults, evicted>>

AddMagnet ==
    /\ pc = "run"
    /\ Step
    /\ \E uri \in UriArgs, o \in AddOracles :
         LET s == add_magnet(Self, uri, o) IN
         /\ faults \/ o = NoFailure
         /\ Becomes(s)
         /\ lastOp' = [Op("add_magnet") EXCEPT !.id = s.tid, !.src = uri,
                           !.raised = s.raised, !.calls = s.calls]
         /\ Noted(s)
    /\ UNCHANGED <<legacyFile, infoHash, pc, faults, evicted>>

Pause ==
    /\ pc = "run"
    /\ Step
    /\ \E id \in Ids : \E o \in PauseOracles(Has(torrents, id)) :
         LET s == pause(Self, id, o) IN
         /\ faults \/ QuietToggle(o)
         /\ Becomes(s)
         /\ lastOp' = [Op("pause") EXCEPT !.id = id, !.calls = s.calls]
    /\ UNCHANGED <<legacyFile, infoHash, pc, faults, added, closedIds, evicted>>

Resume ==
    /\ pc = "run"
    /\ Step
    /\ \E id \in Ids : \E o \in ResumeOracles(Has(torrents, id)) :
         LET s == resume(Self, id, o) IN
         /\ faults \/ QuietToggle(o)
         /\ Becomes(s)
         /\ lastOp' = [Op("resume") EXCEPT !.id = id, !.calls = s.calls]
    /\ UNCHANGED <<legacyFile, infoHash, pc, faults, added, closedIds, evicted>>

Remove ==
    /\ pc = "run"
    /\ Step
    /\ \E id \in Ids, delete_files \in BOOLEAN :
       \E o \in RemoveOraclesFor(Has(torrents, id), delete_files) :
         LET s == remove(Self, id, delete_files, o) IN
         /\ faults \/ QuietRemove(o)
         /\ Becomes(s)
         /\ lastOp' = [Op("remove") EXCEPT !.id = id, !.del = delete_files,
                                           !.calls = s.calls]
         /\ added' = added \ {id}
         /\ closedIds' = closedIds \ {id}
         /\ evicted' = evicted \ {id}
    /\ UNCHANGED <<legacyFile, infoHash, pc, faults>>

\* the ids whose handle the engine reports invalid in this poll
Reported(t, ans) == {t[i].id : i \in {j \in DOMAIN t : ans[t[j].h].q = "runtime_error"}}

\* get_status_list() with the engine answering from Answers
ListStatusFrom(Answers) ==
    /\ pc = "run"
    /\ Step
    /\ \E ans \in [Handles(torrents) -> Answers] :
         LET r == get_status_list(Self, ans) IN
         /\ faults \/ \A h \in DOMAIN ans : ans[h].q # "other_error"
         /\ Becomes(r.s)
         /\ lastOp' = [Op("get_status_list") EXCEPT !.raised = r.s.raised,
                                                    !.out = r.result, !.raw = r.raw]
         /\ added' = added \ Reported(torrents, ans)
         /\ evicted' = evicted \cup (Keys(torrents) \ Keys(r.s.torrents))
    /\ UNCHANGED <<legacyFile, infoHash, pc, faults, closedIds>>

ListStatus == ListStatusFrom(PollAnswers)

Close ==
    /\ pc = "run"
    /\ Step
    /\ \E o \in CloseOracles(Handles(torrents)) :
         LET s == close(Self, o) IN
         /\ faults \/ QuietClose(o)
         /\ Becomes(s)
         /\ lastOp' = [Op("close") EXCEPT !.calls = s.calls]
    /\ closedIds' = closedIds \cup Keys(torrents)
    /\ UNCHANGED <<legacyFile, infoHash, pc, faults, added, evicted>>

Next ==
    \/ Start
    \/ AddFile
    \/ AddMagnet
    \/ Pause
    \/ Resume
    \/ Remove
    \/ ListStatus
    \/ Close

Spec == Init /\ [][Next]_vars

-----------------------------------------------------------------------------
(* The same manager with an engine and a file system that never fail: the  *)
(* engine may still invalidate handles.                                    *)

InitNominal == Fresh /\ faults = FALSE

SpecNominal == InitNominal /\ [][Next]_vars

-----------------------------------------------------------------------------
(* Start-up on its own: _load_state on every pair of start files.          *)

InitLoad ==
    /\ torrents = <<>>
    /\ meta = <<>>
    /\ stateFile \in StartFiles
    /\ legacyFile \in StartFiles
    /\ infoHash = TRUE
    /\ pc = "new"
    /\ faults = TRUE
    /\ steps = 0
    /\ lastOp = Op("init")
    /\ added = {}
    /\ closedIds = {}
    /\ evicted = {}

NextLoad == Start

SpecLoad == InitLoad /\ [][NextLoad]_vars

-----------------------------------------------------------------------------
(* The status reconciler on its own: one tracked torrent, polled once with *)
(* every raw status of RawStatus.                                          *)

InitStatus ==
    /\ torrents = <<[id |-> 101, h |-> 1]>>
    /\ meta = <<DescA>>
    /\ stateFile = Json("obj", <<DescA>>)
    /\ legacyFile = Absent
    /\ infoHash = TRUE
    /\ pc = "run"
    /\ faults = TRUE
    /\ steps = MaxSteps - 1
    /\ lastOp = Op("init")
    /\ added = {101}
    /\ closedIds = {}
    /\ evicted = {}

PollStatus == ListStatusFrom(RawStatus)

NextStatus == PollStatus

SpecStatus == InitStatus /\ [][NextStatus]_vars



-----------------------------------------------------------------------------
(* Properties.  What the last operation was called with and what it        *)
(* returned is in lastOp; the snapshots of a poll are in lastOp.out, the   *)
(* engine's answers they were computed from in lastOp.raw, index by index. *)

\* the ids of the descriptors a state file holds (none when there is no file)
FileIds(file) == Keys(file.torrents)

\* the ids in the result of the last get_status_list
OutIds == {lastOp.out[i].id : i \in DOMAIN lastOp.out}

AllOk(calls) == \A i \in DOMAIN calls : calls[i].ok

\* descriptors as a manager whose engine gives content ids writes them:
\* a known kind, a source the engine accepts, the content id, no id twice
ValidList(items) ==
    /\ \A i \in DOMAIN items :
         /\ items[i].kind \in {"file", "magnet"}
         /\ ParseOK(items[i].kind, items[i].source)
         /\ items[i].id = InfoHash(items[i].source)
    /\ Cardinality(Keys(items)) = Len(items)

\* the last operation was a start-up in which no engine call and no file
\* operation failed and the engine gave content ids
CleanLoad ==
    /\ lastOp.op = "load"
    /\ ~lastOp.raised
    /\ AllOk(lastOp.calls)
    /\ infoHash

\* C1: after remove(id, delete_files=False) of a tracked id, the id is in
\* neither the live map (so no later get_status_list lists it) nor the
\* descriptors of the state file, with no further operation.
C1_RemoveIsPersisted ==
    (lastOp.op = "remove" /\ ~lastOp.del /\ lastOp.calls # <<>>)
        => (lastOp.id \notin Keys(torrents) /\ lastOp.id \notin FileIds(stateFile))

\* C2 as stated: every get_status_list that returns lists every id that was
\* added and neither removed nor reported invalid since, whatever other
\* operations (close among them) came in between.
C2_AddedStaysListed ==
    (lastOp.op = "get_status_list" /\ ~lastOp.raised) => added \subseteq OutIds

\* C2: every get_status_list that returns lists every id that was added and
\* neither removed, nor reported invalid, nor dropped by close() since.
C2_AddedStaysListedUntilClose ==
    (lastOp.op = "get_status_list" /\ ~lastOp.raised)
        => (added \ closedIds) \subseteq OutIds

C2_Witness ==
    /\ lastOp.op = "get_status_list"
    /\ ~lastOp.raised
    /\ 101 \in added \ closedIds
    /\ 101 \in OutIds
    /\ 102 \in Keys(meta) \ OutIds

\* C3: a start-up with no current file and a legacy file of N valid
\* descriptors, nothing failing, leaves the current file with the same N
\* descriptors and no legacy file.
C3_Migration ==
    (/\ CleanLoad
     /\ lastOp.cur0 = "absent"
     /\ lastOp.frm = "legacy"
     /\ lastOp.data.j = "obj"
     /\ ValidList(lastOp.data.torrents))
        => (/\ legacyFile = Absent
            /\ stateFile = Json("obj", lastOp.data.torrents))

C3_Witness ==
    /\ CleanLoad
    /\ lastOp.cur0 = "absent"
    /\ lastOp.frm = "legacy"
    /\ lastOp.data = Json("obj", <<DescB, DescM>>)
    /\ legacyFile = Absent
    /\ stateFile = Json("obj", <<DescB, DescM>>)

\* C4: a start-up that reads a saved, non-empty list of descriptors from the
\* current file, nothing failing, tracks a descriptor set equal to the saved
\* one by id, kind and source.
C4_RoundTrip ==
    (/\ CleanLoad
     /\ lastOp.frm = "current"
     /\ lastOp.data.j = "obj"
     /\ lastOp.data.torrents # <<>>
     /\ ValidList(lastOp.data.torrents))
        => (/\ Range(meta) = Range(lastOp.data.torrents)
            /\ Keys(torrents) = Keys(meta))

C4_Witness ==
    /\ CleanLoad
    /\ lastOp.frm = "current"
    /\ Len(lastOp.data.torrents) = 2
    /\ ValidList(lastOp.data.torrents)
    /\ Range(meta) = Range(lastOp.data.torrents)
    /\ Keys(torrents) = {101, 102}

\* C5: in every reachable state, pause(id) of an id that is not in the live
\* map does not raise and leaves the state file holding the descriptors it
\* held (a file that did not exist counts as holding none).
C5_PauseUnknownKeepsFile ==
    [][(/\ lastOp'.op = "pause"
        /\ steps' = steps + 1
        /\ lastOp'.id \notin Keys(torrents))
           => (/\ ~lastOp'.raised
               /\ stateFile'.torrents = stateFile.torrents)]_vars

\* C6: the start-up never raises, whatever the two files hold, and restores
\* nothing when no file could be read.
C6_LoadNeverRaises ==
    lastOp.op = "load"
        => (/\ ~lastOp.raised
            /\ IsNone(lastOp.data) => torrents = <<>>)

\* C7 as stated: the ETA of a snapshot is -1 whenever progress is 1.0 or the
\* download rate is 0.
C7_EtaUnknownAtFullProgress ==
    \A i \in DOMAIN lastOp.out :
        (lastOp.raw[i].progress = 100 \/ lastOp.raw[i].download_rate = 0)
            => lastOp.out[i].eta = -1

\* C7: the ETA of a snapshot is -1 whenever the download rate is 0 or the
\* downloaded bytes reach the effective total size.
C7_EtaUnknown ==
    \A i \in DOMAIN lastOp.out :
        (\/ lastOp.raw[i].download_rate = 0
         \/ lastOp.raw[i].total_done >= lastOp.out[i].total_size)
            => lastOp.out[i].eta = -1

C7_Witness ==
    \E i \in DOMAIN lastOp.out :
        /\ lastOp.raw[i].download_rate > 0
        /\ lastOp.raw[i].total_done = 100000
        /\ lastOp.out[i].total_size = 100000
        /\ lastOp.out[i].eta = -1

\* C8: the display state of a snapshot is "Paused" whenever the engine says
\* paused, whatever the raw state, the seeding flag, progress and rate are.
C8_PausedWins ==
    \A i \in DOMAIN lastOp.out :
        lastOp.raw[i].paused => lastOp.out[i].state = "Paused"

C8_Witness ==
    \E i \in DOMAIN lastOp.out :
        /\ lastOp.raw[i].paused
        /\ lastOp.raw[i].is_seeding
        /\ lastOp.raw[i].state = 8
        /\ lastOp.raw[i].progress = 42
        /\ lastOp.out[i].state = "Paused"

\* the sizes of the files in S, summed
RECURSIVE SumSizes(_, _)
SumSizes(sizes, S) ==
    IF S = {} THEN 0
    ELSE LET i == CHOOSE x \in S : TRUE
         IN  sizes[i] + SumSizes(sizes, S \ {i})

\* the size of the files that have a priority and whose priority is > 0
SelectedSize(r) ==
    SumSizes(r.sizes, {i \in DOMAIN r.sizes \cap DOMAIN r.priorities : r.priorities[i] > 0})

\* the engine gave a non-empty list of file priorities
PrioritiesPresent(r) == r.info = "ok" /\ r.prio = "ok" /\ r.priorities # <<>>

\* C9 as stated: the total size of a snapshot is the size of the files with
\* priority > 0 when priorities are present and that size is positive, and
\* the engine's total_wanted in every other case.
C9_TotalSizeWhenPrioritiesPresent ==
    \A i \in DOMAIN lastOp.out :
        lastOp.out[i].total_size =
            IF PrioritiesPresent(lastOp.raw[i]) /\ SelectedSize(lastOp.raw[i]) > 0
            THEN SelectedSize(lastOp.raw[i])
            ELSE lastOp.raw[i].total_wanted

\* C9: the total size of a snapshot is the size of the files with priority
\* > 0 when priorities are present, there is one priority per file and that
\* size is positive, and the engine's total_wanted in every other case.
C9_TotalSize ==
    \A i \in DOMAIN lastOp.out :
        lastOp.out[i].total_size =
            IF /\ PrioritiesPresent(lastOp.raw[i])
               /\ Len(lastOp.raw[i].priorities) = Len(lastOp.raw[i].sizes)
               /\ SelectedSize(lastOp.raw[i]) > 0
            THEN SelectedSize(lastOp.raw[i])
            ELSE lastOp.raw[i].total_wanted

C9_Witness ==
    \E i \in DOMAIN lastOp.out :
        /\ lastOp.raw[i].priorities = <<4, 0>>
        /\ lastOp.raw[i].sizes = <<40000, 60000>>
        /\ lastOp.raw[i].total_wanted = 100000
        /\ lastOp.out[i].total_size = 40000

\* the label of a raw state in the table of eight, "Unknown" outside 0..7
RawLabel(raw_state) ==
    CASE raw_state = 0 -> "Queued"
      [] raw_state = 1 -> "Checking"
      [] raw_state = 2 -> "Downloading metadata"
      [] raw_state = 3 -> "Downloading"
      [] raw_state = 4 -> "Finished"
      [] raw_state = 5 -> "Seeding"
      [] raw_state = 6 -> "Allocating"
      [] raw_state = 7 -> "Checking fastresume"
      [] OTHER -> "Unknown"

\* 0 < progress < 1 and a download rate under 50 KiB/s
Stalled(r) == 0 < r.progress /\ r.progress < 100 /\ r.download_rate < 51200

\* C10: a torrent that is not paused shows "Seeding" when it is seeding;
\* otherwise "Resuming" when 0 < progress < 1 and the rate is under 51200 B/s,
\* whatever the raw state; otherwise the label of the raw state, "Unknown"
\* for a raw state outside 0..7.
C10_DisplayState ==
    \A i \in DOMAIN lastOp.out :
        LET r == lastOp.raw[i] IN
        ~r.paused =>
            lastOp.out[i].state =
                IF r.is_seeding THEN "Seeding"
                ELSE IF Stalled(r) THEN "Resuming"
                ELSE RawLabel(r.state)

C10_Witness ==
    \E i \in DOMAIN lastOp.out :
        /\ ~lastOp.raw[i].paused
        /\ ~lastOp.raw[i].is_seeding
        /\ lastOp.raw[i].state = -1
        /\ lastOp.raw[i].download_rate = 51200
        /\ lastOp.raw[i].progress = 42
        /\ lastOp.out[i].state = "Unknown"

\* C11: remove(id, delete_files) never raises and leaves the id in neither
\* map, whatever the engine does; the engine is asked once, and once more
\* without delete_files when the first call fails; without the delete-files
\* capability the only calls are plain removals.
C11_RemoveAlwaysDetaches ==
    lastOp.op = "remove" =>
        /\ ~lastOp.raised
        /\ lastOp.id \notin Keys(torrents)
        /\ lastOp.id \notin Keys(meta)
        /\ Len(lastOp.calls) <= 2
        /\ \A i \in DOMAIN lastOp.calls :
             /\ lastOp.calls[i].h = lastOp.calls[1].h
             /\ (i = 2) => (~lastOp.calls[1].ok /\ lastOp.calls[2].c = "remove_torrent")
             /\ (i = 1 /\ ~lastOp.calls[1].ok) => Len(lastOp.calls) = 2
             /\ (~lastOp.del) => lastOp.calls[i].c = "remove_torrent"

C11_Witness ==
    /\ lastOp.op = "remove"
    /\ lastOp.del
    /\ Len(lastOp.calls) = 2
    /\ lastOp.calls[1].c = "remove_torrent_delete_files"
    /\ ~lastOp.calls[2].ok
    /\ 102 \in Keys(meta)
    /\ lastOp.id = 101

\* the last operation ended with a write of the state file that succeeded
WroteFile ==
    /\ lastOp.calls # <<>>
    /\ lastOp.calls[Len(lastOp.calls)].c = "write"
    /\ lastOp.calls[Len(lastOp.calls)].ok

\* C12: a get_status_list that returns lists exactly the ids it leaves in
\* the live map, drops ids from the live map only, and changes neither the
\* descriptor map nor the state file; the descriptor of an id it dropped
\* stays in the descriptor map, and in the file after every pause, add or
\* close whose write succeeds, until remove(id).
C12_EvictionIsRuntimeOnly ==
    [][/\ (lastOp'.op = "get_status_list" /\ steps' = steps + 1) =>
             /\ meta' = meta
             /\ stateFile' = stateFile
             /\ Keys(torrents') \subseteq Keys(torrents)
             /\ (~lastOp'.raised) =>
                    {lastOp'.out[i].id : i \in DOMAIN lastOp'.out} = Keys(torrents')
       /\ evicted' \subseteq Keys(meta')
       /\ (/\ lastOp'.op \in {"pause", "add_torrent_file", "add_magnet", "close"}
           /\ steps' = steps + 1
           /\ lastOp'.calls # <<>>
           /\ lastOp'.calls[Len(lastOp'.calls)].c = "write"
           /\ lastOp'.calls[Len(lastOp'.calls)].ok) =>
             \A id \in evicted' : Get(meta', id) \in Range(stateFile'.torrents)
      ]_vars

C12_Witness ==
    /\ lastOp.op = "pause"
    /\ WroteFile
    /\ 101 \in evicted
    /\ 101 \notin Keys(torrents)
    /\ 102 \in Keys(torrents)
    /\ 101 \in FileIds(stateFile)

\* C13: close() never raises, pauses each handle of the live map once, in
\* order and past every failure, leaves the descriptor map as it was, and
\* when its write succeeds leaves a file whose descriptors are that map.
C13_CloseKeepsDescriptors ==
    [][(lastOp'.op = "close" /\ steps' = steps + 1) =>
          LET c == lastOp'.calls
              n == Len(torrents)
          IN  /\ ~lastOp'.raised
              /\ meta' = meta
              /\ Len(c) = n + 1
              /\ Cardinality(Handles(torrents)) = n
              /\ \A i \in 1..n : c[i].c = "pause" /\ c[i].h = torrents[i].h
              /\ c[n + 1].c = "write"
              /\ c[n + 1].ok =>
                    /\ stateFile'.t = "json"
                    /\ stateFile'.j = "obj"
                    /\ Range(stateFile'.torrents) = Range(meta)
      ]_vars

C13_Witness ==
    /\ lastOp.op = "close"
    /\ Len(lastOp.calls) = 3
    /\ ~lastOp.calls[1].ok
    /\ lastOp.calls[2].c = "pause"
    /\ lastOp.calls[3].ok
    /\ Len(meta) = 2
    /\ stateFile = Json("obj", meta)

\* the last call of the operation was a write of the state file that failed
SaveFailed(op) ==
    /\ op.calls # <<>>
    /\ op.calls[Len(op.calls)].c = "write"
    /\ ~op.calls[Len(op.calls)].ok

\* C14: an add, pause or close whose save fails does not raise, and leaves
\* in the two maps exactly what the same call leaves when its save succeeds;
\* the add returns the id it returns then.
C14_SaveFailureIsSwallowed ==
    [][(/\ steps' = steps + 1
        /\ lastOp'.op \in {"add_torrent_file", "add_magnet", "pause", "close"}
        /\ SaveFailed(lastOp')) =>
          LET good ==
                CASE lastOp'.op = "add_torrent_file" ->
                       add_torrent_file(Self, lastOp'.src, NoFailure)
                  [] lastOp'.op = "add_magnet" ->
                       add_magnet(Self, lastOp'.src, NoFailure)
                  [] lastOp'.op = "pause" ->
                       pause(Self, lastOp'.id, [eng |-> TRUE, io |-> "ok"])
                  [] OTHER ->
                       close(Self, [eng |-> [h \in Handles(torrents) |-> TRUE],
                                    io |-> "ok"])
          IN  /\ ~lastOp'.raised
              /\ torrents' = good.torrents
              /\ meta' = good.meta
              /\ lastOp'.op \in {"add_torrent_file", "add_magnet"} =>
                    /\ lastOp'.id = good.tid
                    /\ lastOp'.id \in Keys(torrents')
                    /\ lastOp'.id \in Keys(meta')
      ]_vars

C14_Witness ==
    /\ lastOp.op = "add_torrent_file"
    /\ SaveFailed(lastOp)
    /\ lastOp.id = 102
    /\ 102 \in Keys(torrents)
    /\ 102 \in Keys(meta)
    /\ stateFile = Bad

\* C15: get_status_list returns normally whatever the engine raises from
\* status(), get_torrent_info() or file_priorities(), and whatever the kind
\* of the exception.
C15_ListStatusNeverRaises ==
    lastOp.op = "get_status_list" => ~lastOp.raised

\* C16: an add_torrent_file or add_magnet that fails (unparseable file,
\* malformed URI, engine refusing) raises to its caller and leaves the live
\* map, the descriptor map and the state file exactly as they were.
C16_FailedAddChangesNothing ==
    [][(/\ steps' = steps + 1
        /\ lastOp'.op \in {"add_torrent_file", "add_magnet"}
        /\ (\/ lastOp'.raised
            \/ ~ParseOK(IF lastOp'.op = "add_magnet" THEN "magnet" ELSE "file",
                        lastOp'.src)
            \/ \E i \in DOMAIN lastOp'.calls :
                  lastOp'.calls[i].c = "add_torrent" /\ ~lastOp'.calls[i].ok)) =>
          /\ lastOp'.raised
          /\ torrents' = torrents
          /\ meta' = meta
          /\ stateFile' = stateFile
      ]_vars

C16_Witness ==
    /\ lastOp.op = "add_magnet"
    /\ lastOp.raised
    /\ lastOp.src = "magnet:a"
    /\ Keys(torrents) = {102}
    /\ Keys(meta) = {102}
    /\ FileIds(stateFile) = {101, 102}

\* C17: after an add that returned id, the live map has id, the descriptor
\* map has id with the kind of the call and the source it was given, and
\* when the write succeeded the state file holds the descriptor map, all of
\* it and nothing else.
C17_AddRecordsAndPersists ==
    (lastOp.op \in {"add_torrent_file", "add_magnet"} /\ ~lastOp.raised) =>
        /\ lastOp.id \in Keys(torrents)
        /\ lastOp.id \in Keys(meta)
        /\ Get(meta, lastOp.id) =
              [id |-> lastOp.id,
               kind |-> IF lastOp.op = "add_magnet" THEN "magnet" ELSE "file",
               source |-> lastOp.src]
        /\ WroteFile => stateFile = Json("obj", meta)

C17_Witness ==
    /\ lastOp.op = "add_magnet"
    /\ ~lastOp.raised
    /\ WroteFile
    /\ lastOp.id = 101
    /\ meta = <<DescB, DescM>>
    /\ stateFile = Json("obj", <<DescB, DescM>>)

\* the calls of the load after its first n calls include no write
NoWriteAfter(op, n) ==
    \A i \in DOMAIN op.calls : i > n => op.calls[i].c # "write"

\* C18: a start-up removes the legacy file only after it wrote the whole of
\* its contents to the current file; when that write fails the legacy file
\* stays; when the removal fails after the write succeeded, the start-up
\* goes on and restores the descriptors it read from the legacy file.
C18_DeleteAfterRewrite ==
    [][(lastOp'.op = "load" /\ steps' = steps + 1) =>
          LET c == lastOp'.calls IN
          /\ legacyFile' \in {legacyFile, Absent}
          /\ legacyFile' # legacyFile =>
                /\ Len(c) >= 2
                /\ c[1].c = "write" /\ c[1].ok
                /\ c[2].c = "os.remove" /\ c[2].ok
                /\ lastOp'.data = legacyFile
                /\ NoWriteAfter(lastOp', 2) => stateFile' = legacyFile
          /\ (c # <<>> /\ c[1].c = "write" /\ ~c[1].ok) =>
                /\ legacyFile' = legacyFile
                /\ Len(c) = 1
          /\ (Len(c) >= 2 /\ c[2].c = "os.remove" /\ ~c[2].ok) =>
                /\ legacyFile' = legacyFile
                /\ lastOp'.data = legacyFile
                /\ (/\ legacyFile.j = "obj"
                    /\ ValidList(legacyFile.torrents)
                    /\ infoHash'
                    /\ \A i \in DOMAIN c : (i > 2 /\ c[i].c = "add_torrent") => c[i].ok) =>
                      /\ ~lastOp'.raised
                      /\ meta' = legacyFile.torrents
                      /\ Keys(torrents') = Keys(legacyFile.torrents)
      ]_vars

C18_Witness ==
    /\ lastOp.op = "load"
    /\ Len(lastOp.calls) >= 2
    /\ lastOp.calls[1].ok
    /\ lastOp.calls[2].c = "os.remove"
    /\ ~lastOp.calls[2].ok
    /\ legacyFile = Json("obj", <<DescB, DescM>>)
    /\ meta = <<DescB, DescM>>
    /\ Keys(torrents) = {101, 102}

\* C19: a start-up whose current file exists and parses does not read the
\* legacy file, does not copy it over the current file and does not remove
\* it.
C19_LegacyOnlyWithoutCurrent ==
    [][(lastOp'.op = "load" /\ steps' = steps + 1 /\ stateFile.t = "json") =>
          /\ lastOp'.frm # "legacy"
          /\ lastOp'.data = stateFile
          /\ legacyFile' = legacyFile
          /\ (lastOp'.calls # <<>>) => lastOp'.calls[1].c # "write"
      ]_vars

\* no write of the state file and no removal of the legacy file failed in
\* the last operation
FilesOk ==
    \A i \in DOMAIN lastOp.calls :
        lastOp.calls[i].c \in {"write", "os.remove"} => lastOp.calls[i].ok

\* C20: when a start-up has finished, the current file still holds, by kind
\* and source, every descriptor of the list the start-up read, also when the
\* engine refused to re-add some of them.
C20_StartupKeepsDescriptors ==
    (lastOp.op = "load" /\ ~lastOp.raised /\ lastOp.data.j = "obj" /\ FilesOk) =>
        \A i \in DOMAIN lastOp.data.torrents :
            LET d == lastOp.data.torrents[i] IN
            d.kind \in {"file", "magnet"} =>
                \E j \in DOMAIN stateFile.torrents :
                    /\ stateFile.torrents[j].kind = d.kind
                    /\ stateFile.torrents[j].source = d.source

\* the engine calls of an operation: its calls that are no file operation
EngineCalls(op) == SelectSeq(op.calls, LAMBDA c : c.c \notin {"write", "os.remove"})

\* the writes of the state file an operation made
Writes(op) == SelectSeq(op.calls, LAMBDA c : c.c = "write")

\* C21: pause(id) and resume(id) never raise and change neither map, for an
\* unknown id, a tracked id, and a failing engine call; the engine is asked
\* exactly when the id is tracked, once, on the id's handle; pause ends with
\* one write of the state file and resume writes nothing.
C21_PauseResumeFrame ==
    [][(lastOp'.op \in {"pause", "resume"} /\ steps' = steps + 1) =>
          LET id == lastOp'.id
              e == EngineCalls(lastOp')
              w == Writes(lastOp')
          IN  /\ ~lastOp'.raised
              /\ torrents' = torrents
              /\ meta' = meta
              /\ IF Has(torrents, id)
                 THEN /\ Len(e) = 1
                      /\ e[1].c = lastOp'.op
                      /\ e[1].h = Get(torrents, id).h
                 ELSE e = <<>>
              /\ IF lastOp'.op = "pause"
                 THEN /\ Len(w) = 1
                      /\ lastOp'.calls[Len(lastOp'.calls)].c = "write"
                      /\ w[1].ok => stateFile' = Json("obj", meta)
                 ELSE /\ w = <<>>
                      /\ stateFile' = stateFile
      ]_vars

C21_Witness ==
    /\ lastOp.op = "resume"
    /\ lastOp.id = 101
    /\ Len(lastOp.calls) = 1
    /\ ~lastOp.calls[1].ok
    /\ Keys(torrents) = {101, 102}
    /\ Keys(meta) = {101, 102}

\* max(0, total_size - downloaded) of a snapshot
Remaining(snap) ==
    IF snap.total_size > snap.downloaded THEN snap.total_size - snap.downloaded ELSE 0

\* C22: with remaining = max(0, total_size - downloaded) over the effective
\* total size, the ETA is floor(remaining / download_rate), at least 0 and 0
\* when remaining < download_rate, when the rate and remaining are both
\* positive, and -1 in every other case: it is -1 exactly when the rate is
\* <= 0 or downloaded >= total_size.
C22_EtaFormula ==
    \A i \in DOMAIN lastOp.out :
        LET snap == lastOp.out[i]
            rate == snap.download_rate
            rem == Remaining(snap)
        IN  /\ snap.download_rate = lastOp.raw[i].download_rate
            /\ snap.downloaded = lastOp.raw[i].total_done
            /\ (rate > 0 /\ rem > 0) =>
                  /\ snap.eta >= 0
                  /\ snap.eta * rate <= rem
                  /\ rem < (snap.eta + 1) * rate
                  /\ rem < rate => snap.eta = 0
            /\ ~(rate > 0 /\ rem > 0) => snap.eta = -1
            /\ snap.eta = -1 <=> (rate <= 0 \/ snap.downloaded >= snap.total_size)

C22_Witness ==
    \E i \in DOMAIN lastOp.out :
        /\ lastOp.out[i].total_size = 40000
        /\ lastOp.out[i].downloaded = 0
        /\ lastOp.out[i].download_rate = 51200
        /\ lastOp.out[i].eta = 0

\* C23: in every reachable state, every id of the live map is a key of the
\* descriptor map.
C23_LiveIdsHaveDescriptors == Keys(torrents) \subseteq Keys(meta)

\* a descriptor without a live handle, next to one that has its handle
C23_Witness ==
    /\ lastOp.op = "get_status_list"
    /\ Keys(torrents) = {102}
    /\ Keys(meta) = {101, 102}
    /\ steps >= 2

====
